---- MODULE Spec2Model ----
(***************************************************************************)
(* A model of audino's HealthTracker (src/audino/core.py): the per-store   *)
(* health mapping guarded by an asyncio.Lock, and the change events the    *)
(* store publishes through a Mediator for fire-and-forget delivery to the  *)
(* subscribed callbacks.                                                   *)
(*                                                                         *)
(* Scheduling is asyncio's: one event loop, one coroutine running at a     *)
(* time, and a running coroutine keeps the loop until it suspends on an    *)
(* await that cannot complete at once or until it returns.  Each call of   *)
(* get_health / set_health is one task of the loop.                        *)
(*                                                                         *)
(* The Mediator (package rayquaza) is not part of the repository: it is    *)
(* modelled at the boundary the specification gives for it (publish,       *)
(* create_subscription, delivery per subscription in publish order,        *)
(* failures of a callback kept inside its own delivery).                   *)
(***************************************************************************)
EXTENDS Integers, Sequences, FiniteSets, TLC

\* ------------------------------------------------------------- bounds
\* The most calls made in a behaviour of StoreSpec (and the tasks there are),
\* of Spec and of FairSpec, and the most subscribe calls.
NumTasks == 3
PairCalls == 2
FairCalls == 2
MaxSubs == 2

Tasks == 1..NumTasks
Stores == {"A", "B"}
Components == {"db", "cache"}
\* The callbacks that may be subscribed, named by what each does when invoked:
\* it returns, it raises, or it suspends and never finishes.
Observers == {"returns", "raises", "never_finishes"}

\* An optional constructor argument: NoArg is Python's None, <<x>> is x.
NoArg == <<>>
ChannelArgs == {NoArg, <<"">>, <<"x">>}
MediatorArgs == {NoArg, <<"bus">>}

VARIABLES
    ctorMediator,   \* [Stores -> MediatorArgs]: the mediator argument of __init__
    ctorChannel,    \* [Stores -> ChannelArgs]: the mediator_channel argument
    mediator,       \* self._mediator
    channel,        \* self._mediator_channel
    health,         \* self._heath_states: a dict, here a function on its keys
    locked,         \* self._lock: whether it is held
    waiters,        \* self._lock: the FIFO of tasks waiting for it
    subs,           \* the mediators' registrations, in registration order
    pending,        \* per registration: deliveries created and not yet started
    received,       \* per registration: the invocations of its callback, in order
    status,         \* per task: "none", "running", "ready", "blocked", "done", "error"
    pc,             \* per task: its position in the coroutine
    args,           \* per task: the call's arguments
    result,         \* per task: get_health's return value
    subsAtStart,    \* per task: how many registrations existed when the call began
    commitLog,      \* per store: the calls whose map write was done, in order
    pubLog          \* the publish calls the mediators received, in order

storeVars == <<ctorMediator, ctorChannel, mediator, channel, health, locked, waiters>>
busVars == <<subs, pending, received, pubLog>>
taskVars == <<status, pc, args, result, subsAtStart>>
vars == <<storeVars, busVars, taskVars, commitLog>>

\* ------------------------------------------------------ pure helpers

\* A lookup whose fallback is True instead of the default passed.
DictGetDefaultTrue(d, k, default) == IF k \in DOMAIN d THEN d[k] ELSE TRUE

\* dict.get(key, default)
DictGet(d, k, default) == IF k \in DOMAIN d THEN d[k] ELSE default

\* A write that keeps the value of a key already present (dict.setdefault).
DictSetFirstWins(d, k, v) == [x \in (DOMAIN d) \cup {k} |-> IF x \in DOMAIN d THEN d[x] ELSE v]

\* A write that replaces the whole mapping by the one entry.
DictSetReplaceAll(d, k, v) == [x \in {k} |-> v]

\* A write that stores the value under every key.
DictSetEveryKey(d, k, v) == [x \in (DOMAIN d) \cup {k} |-> v]

\* d[key] = value
DictSet(d, k, v) == [x \in (DOMAIN d) \cup {k} |-> IF x = k THEN v ELSE d[x]]

\* Python truthiness of an optional string argument: None and "" are falsy.
Truthy(arg) == arg # NoArg /\ arg # <<"">>

\* os.urandom(16).hex(): 128 random bits, taken to be fresh per construction and
\* different from every identifier an owner supplies.
Urandom(s) == "urandom-" \o s

\* mediator or Mediator()
MediatorOf(arg, s) == IF arg # NoArg THEN arg[1] ELSE "private-" \o s

\* A default channel that is one fixed name instead of a random one.
MediatorChannelFixedDefault(arg, s) == IF Truthy(arg) THEN arg[1] ELSE "health"

\* mediator_channel or os.urandom(16).hex()
MediatorChannel(arg, s) == IF Truthy(arg) THEN arg[1] ELSE Urandom(s)

\* An event that reports every component healthy.
HealthStatusAlwaysHealthy(type, healthy) == [type |-> type, healthy |-> TRUE]

\* _HealthStatus(type, healthy)
HealthStatus(type, healthy) == [type |-> type, healthy |-> healthy]

\* publish(..., wait=True)
PublishWaitTrue == TRUE

\* publish(..., wait=False)
PublishWait == FALSE

\* set_health yielding to the event loop between the lock and the publish.
YieldBeforePublishTrue == TRUE

\* Whether set_health suspends between leaving the lock and calling publish:
\* there is no await between the two.
YieldBeforePublish == FALSE

\* ------------------------------------------------------- the mediator

\* The registrations an event published on (med, chan) is matched to.  There is
\* one event type, _HealthStatus, so the type never separates two registrations.
Matching(med, chan) ==
    {r \in 1..Len(subs) : subs[r].med = med /\ subs[r].chan = chan}

\* Mediator.create_subscription(channel, _HealthStatus, handler)
CreateSubscription(med, chan, s, cb) ==
    Append(subs, [med |-> med, chan |-> chan, store |-> s, cb |-> cb])

\* Mediator.publish(channel, message, wait=...): one delivery per matching
\* registration, queued behind that registration's earlier deliveries.
MediatorPublish(med, chan, msg, call) ==
    [r \in 1..MaxSubs |->
        IF r \in Matching(med, chan)
        THEN Append(pending[r], [msg |-> msg, call |-> call])
        ELSE pending[r]]

\* Registration r's callback was invoked for call t.
Invoked(r, t) == \E i \in 1..Len(received[r]) : received[r][i].call = t

\* Every delivery made for call t has finished: none is queued, none is in a
\* callback that never finishes.
DeliveriesDone(t) ==
    /\ \A r \in 1..MaxSubs : \A i \in 1..Len(pending[r]) : pending[r][i].call # t
    /\ \A r \in 1..Len(subs) : subs[r].cb = "never_finishes" => ~Invoked(r, t)

\* A delivery made for call t ended with its callback raising.
DeliveryFailed(t) == \E r \in 1..Len(subs) : subs[r].cb = "raises" /\ Invoked(r, t)

\* _callback(message): await callback(message.type, message.healthy)
CallbackArgs(d) == [type |-> d.msg.type, healthy |-> d.msg.healthy, call |-> d.call]

\* ------------------------------------------------------------- Init

\* HealthTracker.__init__, for both stores, over the given constructor arguments.
InitOver(medArgs, chanArgs) ==
    /\ ctorMediator \in medArgs
    /\ ctorChannel \in chanArgs
    /\ mediator = [s \in Stores |-> MediatorOf(ctorMediator[s], s)]
    /\ channel = [s \in Stores |-> MediatorChannel(ctorChannel[s], s)]
    /\ health = [s \in Stores |-> <<>>]
    /\ locked = [s \in Stores |-> FALSE]
    /\ waiters = [s \in Stores |-> <<>>]
    /\ subs = <<>>
    /\ pending = [r \in 1..MaxSubs |-> <<>>]
    /\ received = [r \in 1..MaxSubs |-> <<>>]
    /\ status = [t \in Tasks |-> "none"]
    /\ pc = [t \in Tasks |-> "none"]
    /\ args = [t \in Tasks |-> [op |-> "none", store |-> "A", type |-> "db", healthy |-> FALSE]]
    /\ result = [t \in Tasks |-> FALSE]
    /\ subsAtStart = [t \in Tasks |-> 0]
    /\ commitLog = [s \in Stores |-> <<>>]
    /\ pubLog = <<>>

\* ---------------------------------------------------------- the tasks

Store(t) == args[t].store

\* The channel set_health publishes on: self._mediator_channel
PublishChannel(s) == channel[s]

\* A subscription made on the constructor's argument, not on the store's field.
SubscribeChannelRawArgument(s) == IF ctorChannel[s] = NoArg THEN "" ELSE ctorChannel[s][1]

\* The channel subscribe registers on: self._mediator_channel
SubscribeChannel(s) == channel[s]

\* No coroutine holds the event loop.
NoRunning == \A t \in Tasks : status[t] # "running"

\* What the event loop may resume: a task that yielded, a task whose wait for the
\* lock was ended by a release, a publisher whose awaited deliveries are over.
Runnable(t) ==
    \/ status[t] = "ready"
    \/ /\ status[t] = "blocked" /\ pc[t] = "lock_wait"
       /\ ~locked[Store(t)] /\ waiters[Store(t)] # <<>> /\ Head(waiters[Store(t)]) = t
    \/ status[t] = "blocked" /\ pc[t] = "publish_wait" /\ DeliveriesDone(t)

\* Task t takes its next step: it holds the loop, or the loop is free and resumes it.
CanStep(t) == status[t] = "running" \/ (NoRunning /\ Runnable(t))

\* A caller's task begins one get_health or set_health call.
Call(t, op, s, type, healthy) ==
    /\ NoRunning
    /\ status[t] = "none"
    /\ \A u \in Tasks : u < t => status[u] # "none"
    /\ status' = [status EXCEPT ![t] = "running"]
    /\ pc' = [pc EXCEPT ![t] = IF op = "get" THEN "get_enter" ELSE "set_enter"]
    /\ args' = [args EXCEPT ![t] = [op |-> op, store |-> s, type |-> type, healthy |-> healthy]]
    /\ subsAtStart' = [subsAtStart EXCEPT ![t] = Len(subs)]
    /\ UNCHANGED <<storeVars, busVars, result, commitLog>>

\* async with self._lock (entry): asyncio.Lock.acquire takes a free lock that
\* nobody waits for without suspending; otherwise it queues the task, which
\* takes the lock when a release has woken it and the loop resumes it.
AcquireLock(t) ==
    /\ CanStep(t)
    /\ pc[t] \in {"get_enter", "set_enter", "lock_wait"}
    /\ LET body == IF args[t].op = "get" THEN "get_read" ELSE "set_write"
       IN  IF pc[t] = "lock_wait"
           THEN /\ locked' = [locked EXCEPT ![Store(t)] = TRUE]
                /\ waiters' = [waiters EXCEPT ![Store(t)] = Tail(@)]
                /\ pc' = [pc EXCEPT ![t] = body]
                /\ status' = [status EXCEPT ![t] = "running"]
           ELSE IF ~locked[Store(t)] /\ waiters[Store(t)] = <<>>
           THEN /\ locked' = [locked EXCEPT ![Store(t)] = TRUE]
                /\ pc' = [pc EXCEPT ![t] = body]
                /\ UNCHANGED <<waiters, status>>
           ELSE /\ waiters' = [waiters EXCEPT ![Store(t)] = Append(@, t)]
                /\ pc' = [pc EXCEPT ![t] = "lock_wait"]
                /\ status' = [status EXCEPT ![t] = "blocked"]
                /\ UNCHANGED locked
    /\ UNCHANGED <<ctorMediator, ctorChannel, mediator, channel, health,
                   busVars, args, result, subsAtStart, commitLog>>

\* A read that inserts the default for a missing key (dict.setdefault).
GetReadSetDefault(t) ==
    /\ CanStep(t)
    /\ pc[t] = "get_read"
    /\ result' = [result EXCEPT ![t] = DictGet(health[Store(t)], args[t].type, FALSE)]
    /\ health' = [health EXCEPT ![Store(t)] =
                     DictSet(@, args[t].type, DictGet(@, args[t].type, FALSE))]
    /\ pc' = [pc EXCEPT ![t] = "get_exit"]
    /\ status' = [status EXCEPT ![t] = "running"]
    /\ UNCHANGED <<ctorMediator, ctorChannel, mediator, channel, locked, waiters,
                   busVars, args, subsAtStart, commitLog>>

\* return self._heath_states.get(type, False)
GetRead(t) ==
    /\ CanStep(t)
    /\ pc[t] = "get_read"
    /\ result' = [result EXCEPT ![t] = DictGet(health[Store(t)], args[t].type, FALSE)]
    /\ pc' = [pc EXCEPT ![t] = "get_exit"]
    /\ status' = [status EXCEPT ![t] = "running"]
    /\ UNCHANGED <<storeVars, busVars, args, subsAtStart, commitLog>>

\* A set_health that goes on to the publish with its write not applied.
SetWriteNotApplied(t) ==
    /\ CanStep(t)
    /\ pc[t] = "set_write"
    /\ pc' = [pc EXCEPT ![t] = "set_exit"]
    /\ status' = [status EXCEPT ![t] = "running"]
    /\ UNCHANGED <<storeVars, busVars, args, result, subsAtStart, commitLog>>

\* A write to one dict shared by all stores (a class attribute).
SetWriteSharedMapping(t) ==
    /\ CanStep(t)
    /\ pc[t] = "set_write"
    /\ health' = [s \in Stores |-> DictSet(health[s], args[t].type, args[t].healthy)]
    /\ commitLog' = [commitLog EXCEPT ![Store(t)] = Append(@, t)]
    /\ pc' = [pc EXCEPT ![t] = "set_exit"]
    /\ status' = [status EXCEPT ![t] = "running"]
    /\ UNCHANGED <<ctorMediator, ctorChannel, mediator, channel, locked, waiters,
                   busVars, args, result, subsAtStart>>

\* self._heath_states[type] = healthy
SetWrite(t) ==
    /\ CanStep(t)
    /\ pc[t] = "set_write"
    /\ health' = [health EXCEPT ![Store(t)] = DictSet(@, args[t].type, args[t].healthy)]
    /\ commitLog' = [commitLog EXCEPT ![Store(t)] = Append(@, t)]
    /\ pc' = [pc EXCEPT ![t] = "set_exit"]
    /\ status' = [status EXCEPT ![t] = "running"]
    /\ UNCHANGED <<ctorMediator, ctorChannel, mediator, channel, locked, waiters,
                   busVars, args, result, subsAtStart>>

\* An exit from the with-block that leaves the lock held.
LockedAfterReleaseStillHeld == TRUE

\* Lock.release(): self._locked = False
LockedAfterRelease == FALSE

\* async with self._lock (exit): Lock.release.  get_health then returns;
\* set_health goes on to the publish.
ReleaseLock(t) ==
    /\ CanStep(t)
    /\ pc[t] \in {"get_exit", "set_exit"}
    /\ locked' = [locked EXCEPT ![Store(t)] = LockedAfterRelease]
    /\ IF pc[t] = "get_exit"
       THEN /\ pc' = [pc EXCEPT ![t] = "done"]
            /\ status' = [status EXCEPT ![t] = "done"]
       ELSE /\ pc' = [pc EXCEPT ![t] = "set_publish"]
            /\ status' = [status EXCEPT ![t] = IF YieldBeforePublish THEN "ready" ELSE "running"]
    /\ UNCHANGED <<ctorMediator, ctorChannel, mediator, channel, health, waiters,
                   busVars, args, result, subsAtStart, commitLog>>

\* message = _HealthStatus(type, healthy)
\* await self._mediator.publish(self._mediator_channel, message, wait=False)
\* With wait=False the await returns at once.  With wait=True it would return
\* when the deliveries are over, raising if one of them raised.
Publish(t) ==
    /\ CanStep(t)
    /\ pc[t] \in {"set_publish", "publish_wait"}
    /\ IF pc[t] = "publish_wait"
       THEN /\ pc' = [pc EXCEPT ![t] = "done"]
            /\ status' = [status EXCEPT ![t] = IF DeliveryFailed(t) THEN "error" ELSE "done"]
            /\ UNCHANGED <<pending, pubLog>>
       ELSE /\ LET s == Store(t)
                   msg == HealthStatus(args[t].type, args[t].healthy)
               IN  /\ pending' = MediatorPublish(mediator[s], PublishChannel(s), msg, t)
                   /\ pubLog' = Append(pubLog, [med |-> mediator[s], chan |-> PublishChannel(s),
                                                msg |-> msg, call |-> t])
            /\ IF PublishWait
               THEN /\ pc' = [pc EXCEPT ![t] = "publish_wait"]
                    /\ status' = [status EXCEPT ![t] = "blocked"]
               ELSE /\ pc' = [pc EXCEPT ![t] = "done"]
                    /\ status' = [status EXCEPT ![t] = "done"]
    /\ UNCHANGED <<storeVars, subs, received, args, result, subsAtStart, commitLog>>

\* A subscribe that registers a callback once per store and does nothing for
\* a callback the store has already registered.
SubscribeOncePerCallback(s, cb) ==
    /\ NoRunning
    /\ Len(subs) < MaxSubs
    /\ subs' = IF \E r \in 1..Len(subs) : subs[r].store = s /\ subs[r].cb = cb
               THEN subs
               ELSE CreateSubscription(mediator[s], SubscribeChannel(s), s, cb)
    /\ UNCHANGED <<storeVars, pending, received, pubLog, taskVars, commitLog>>

\* HealthTracker.subscribe(callback): a plain function, run in one piece.
Subscribe(s, cb) ==
    /\ NoRunning
    /\ Len(subs) < MaxSubs
    /\ subs' = CreateSubscription(mediator[s], SubscribeChannel(s), s, cb)
    /\ UNCHANGED <<storeVars, pending, received, pubLog, taskVars, commitLog>>

\* The event loop starts the next delivery of registration r: _callback calls
\* the subscribed callback with (type, healthy).
DeliverStart(r) ==
    /\ NoRunning
    /\ pending[r] # <<>>
    /\ received' = [received EXCEPT ![r] = Append(@, CallbackArgs(Head(pending[r])))]
    /\ pending' = [pending EXCEPT ![r] = Tail(@)]
    /\ UNCHANGED <<storeVars, subs, pubLog, taskVars, commitLog>>

TaskStep(t) ==
    \/ AcquireLock(t)
    \/ GetRead(t)
    \/ SetWrite(t)
    \/ ReleaseLock(t)
    \/ Publish(t)

\* The steps of the program with at most n calls, on the stores S, the
\* components C and the callbacks O.
NextOver(n, S, C, O) ==
    \/ \E t \in 1..n, s \in S, c \in C : Call(t, "get", s, c, FALSE)
    \/ \E t \in 1..n, s \in S, c \in C, h \in BOOLEAN : Call(t, "set", s, c, h)
    \/ \E t \in Tasks : TaskStep(t)
    \/ \E s \in S, cb \in O : Subscribe(s, cb)
    \/ \E r \in 1..MaxSubs : DeliverStart(r)

\* The constructor arguments of store A and of store B.
Ctor(a, b) == [s \in Stores |-> IF s = "A" THEN a ELSE b]

\* Two stores that share one mediator or have each its own, on one component
\* and with callbacks that return: both stores with the default channel, one
\* with "" and one with "x", and both with "x".
Init ==
    InitOver({Ctor(NoArg, NoArg), Ctor(<<"bus">>, <<"bus">>)},
             {Ctor(NoArg, NoArg), Ctor(<<"">>, <<"x">>), Ctor(<<"x">>, <<"x">>)})

Next == NextOver(PairCalls, Stores, {"db"}, {"returns"})

Spec == Init /\ [][Next]_vars

\* One store with its own mediator, on every component.
StoreInit == InitOver({Ctor(NoArg, NoArg)}, {Ctor(NoArg, NoArg), Ctor(<<"x">>, NoArg)})

StoreNext == NextOver(NumTasks, {"A"}, Components, {"returns"})

StoreSpec == StoreInit /\ [][StoreNext]_vars

\* One store, one component, every kind of callback, under fair scheduling: the
\* loop runs every task that can step and starts every queued delivery.
\* Nothing makes a callback finish.
FairInit == InitOver({Ctor(NoArg, NoArg)}, {Ctor(NoArg, NoArg)})

FairNext == NextOver(FairCalls, {"A"}, {"db"}, Observers)

FairSpec ==
    /\ FairInit /\ [][FairNext]_vars
    /\ \A t \in Tasks : WF_vars(TaskStep(t))
    /\ \A r \in 1..MaxSubs : WF_vars(DeliverStart(r))

\* ================================================================ claims

IsGet(t) == status[t] # "none" /\ args[t].op = "get"
IsSet(t) == status[t] # "none" /\ args[t].op = "set"

\* The calls whose write to component c of store s was committed, in commit order.
WritesTo(s, c) == SelectSeq(commitLog[s], LAMBDA w : args[w].type = c)

Last(seq) == seq[Len(seq)]

\* Every set_health call that was made on store s has returned.
SetsCompleted(s) == \A u \in Tasks : (IsSet(u) /\ Store(u) = s) => status[u] = "done"

\* get_health call t has read the mapping and is about to leave the lock and
\* return result[t]; it began after the set_health calls on its store completed.
GetReturns(t) == IsGet(t) /\ pc[t] = "get_exit" /\ SetsCompleted(Store(t))

\* C1 (last-write-wins): a get_health(id) that begins after the set_health calls
\* on its store have completed returns the value of the set_health(id, v) whose
\* write was committed last for id.
C1_LastWriteWins ==
    \A t \in Tasks :
        (GetReturns(t) /\ WritesTo(Store(t), args[t].type) # <<>>)
            => result[t] = args[Last(WritesTo(Store(t), args[t].type))].healthy

\* Two writes of different values to one id, then a read of that id.
C1_Witness ==
    \E t \in Tasks :
        /\ GetReturns(t)
        /\ LET w == WritesTo(Store(t), args[t].type)
           IN  Len(w) = 2 /\ args[w[1]].healthy # args[w[2]].healthy

\* The events the mediators were handed for call t.
EventsOf(t) == SelectSeq(pubLog, LAMBDA e : e.call = t)

\* C2: each set_health(id, v) call submits exactly one change event, carrying
\* exactly (id, v), on its store's channel; a write of the value already stored
\* is no exception.
C2_OneEventPerCall ==
    \A t \in Tasks :
        IsSet(t) =>
            /\ Len(EventsOf(t)) = (IF status[t] = "done" THEN 1 ELSE 0)
            /\ \A i \in 1..Len(EventsOf(t)) :
                  /\ EventsOf(t)[i].msg.type = args[t].type
                  /\ EventsOf(t)[i].msg.healthy = args[t].healthy
                  /\ EventsOf(t)[i].med = mediator[Store(t)]
                  /\ EventsOf(t)[i].chan = channel[Store(t)]

\* Two consecutive writes of the same value to one id, and two events for them.
C2_Witness ==
    \E t, u \in Tasks :
        /\ t # u /\ IsSet(t) /\ IsSet(u)
        /\ status[t] = "done" /\ status[u] = "done"
        /\ Store(t) = Store(u) /\ args[t].type = args[u].type
        /\ args[t].healthy = FALSE /\ args[u].healthy = FALSE
        /\ commitLog[Store(t)] = <<t, u>>
        /\ Len(pubLog) = 2 /\ pubLog[1].msg = pubLog[2].msg

\* C6: get_health(id) returns False, and raises nothing, for every id for which
\* no write was committed on the store.
C6_UnknownIsFalse ==
    \A t \in Tasks :
        IsGet(t) =>
            /\ status[t] # "error"
            /\ (pc[t] = "get_exit" /\ WritesTo(Store(t), args[t].type) = <<>>)
                  => result[t] = FALSE

\* A read of an id never written, on a store whose other id was written True.
C6_Witness ==
    \E t \in Tasks :
        /\ IsGet(t) /\ pc[t] = "get_exit"
        /\ WritesTo(Store(t), args[t].type) = <<>>
        /\ \E c \in DOMAIN health[Store(t)] : health[Store(t)][c] = TRUE

\* The writers of store s wrote to pairwise distinct ids.
DistinctWriters(s) ==
    \A i, j \in 1..Len(commitLog[s]) :
        i # j => args[commitLog[s][i]].type # args[commitLog[s][j]].type

\* C7 (no lost writes): when the writers of a store each wrote a distinct id and
\* all have completed, the mapping holds, and get_health returns, for each of
\* these ids the value its writer wrote.
C7_NoLostWrites ==
    \A s \in Stores :
        (SetsCompleted(s) /\ DistinctWriters(s)) =>
            \A i \in 1..Len(commitLog[s]) :
                LET w == commitLog[s][i]
                IN  /\ args[w].type \in DOMAIN health[s]
                    /\ health[s][args[w].type] = args[w].healthy
                    /\ \A t \in Tasks :
                          (IsGet(t) /\ pc[t] = "get_exit" /\ Store(t) = s
                              /\ args[t].type = args[w].type)
                          => result[t] = args[w].healthy

\* Two writers of distinct ids have completed and the id written first, with
\* True, is read.
C7_Witness ==
    \E t \in Tasks :
        /\ GetReturns(t)
        /\ Len(commitLog[Store(t)]) = 2
        /\ DistinctWriters(Store(t))
        /\ args[commitLog[Store(t)][1]].type = args[t].type
        /\ args[commitLog[Store(t)][1]].healthy = TRUE

\* The place of call w in the commit order of its store.
CommitPos(w) == CHOOSE i \in 1..Len(commitLog[Store(w)]) : commitLog[Store(w)][i] = w

\* C4: one observer receives the change events of one store in the order in
\* which their writes were committed under the lock.
C4_DeliveryFollowsCommitOrder ==
    \A r \in 1..MaxSubs :
        \A i, j \in 1..Len(received[r]) :
            (i < j /\ Store(received[r][i].call) = Store(received[r][j].call))
                => CommitPos(received[r][i].call) < CommitPos(received[r][j].call)

\* A registration of store A has received two events of store A.
C4_Witness ==
    \E r \in 1..Len(subs) :
        /\ subs[r].store = "A"
        /\ Len(received[r]) = 2
        /\ Store(received[r][1].call) = "A" /\ Store(received[r][2].call) = "A"
        /\ received[r][1].healthy # received[r][2].healthy

\* Callback cb is registered, and only through store b.
RegisteredOnlyOn(cb, b) ==
    /\ \E r \in 1..Len(subs) : subs[r].cb = cb
    /\ \A r \in 1..Len(subs) : subs[r].cb = cb => subs[r].store = b

\* Stores a and b have different scope identifiers; two stores constructed
\* without a channel argument are to have different ones.
DifferentScopes(a, b) ==
    \/ channel[a] # channel[b]
    \/ (a # b /\ ctorChannel[a] = NoArg /\ ctorChannel[b] = NoArg)

\* C8 (scope isolation): for stores a and b with different scope identifiers,
\* sharing a mediator or not, no set_health on a invokes a callback registered
\* only on b.
C8_ScopeIsolation ==
    \A a, b \in Stores :
        DifferentScopes(a, b) =>
            \A r \in 1..Len(subs) :
                RegisteredOnlyOn(subs[r].cb, b) =>
                    \A i \in 1..Len(received[r]) : Store(received[r][i].call) # a

\* Both stores have the default channel and the same mediator, a callback is
\* registered only on B, and a set_health on A that began afterwards has published.
C8_Witness ==
    \E t \in Tasks, r \in 1..Len(subs) :
        /\ mediator["A"] = mediator["B"]
        /\ ctorChannel["A"] = NoArg /\ ctorChannel["B"] = NoArg
        /\ RegisteredOnlyOn(subs[r].cb, "B")
        /\ IsSet(t) /\ Store(t) = "A" /\ status[t] = "done" /\ r <= subsAtStart[t]
        /\ received[r] = <<>> /\ pending[r] = <<>>

\* C10: a store's scope identifier is the one its owner supplied, whatever
\* string that is, and a generated one when none was supplied; every publish and
\* every subscription of the store uses it.
C10_ScopeIsTheSuppliedOne ==
    \A s \in Stores :
        /\ ctorChannel[s] # NoArg => channel[s] = ctorChannel[s][1]
        /\ ctorChannel[s] = NoArg => channel[s] = Urandom(s)
        /\ \A i \in 1..Len(pubLog) : Store(pubLog[i].call) = s => pubLog[i].chan = channel[s]
        /\ \A r \in 1..Len(subs) : subs[r].store = s => subs[r].chan = channel[s]

\* How often registration r's callback was invoked for call t.
Count(r, t) == Cardinality({i \in 1..Len(received[r]) : received[r][i].call = t})

\* Registration r was made on the store of set_health call t before t began.
RegisteredBefore(r, t) == IsSet(t) /\ r <= subsAtStart[t] /\ subs[r].store = Store(t)

\* C3: for every set_health(id, v) call and every observer subscribed on the
\* same store before the call began, the observer is invoked for that call at
\* most once, with (id, v), and under fair scheduling of the deliveries it is
\* eventually invoked exactly once, however slow the observers are (again and
\* again a state comes in which every such observer was invoked exactly once;
\* being registered before a call and having been invoked both last).
C3_DeliveredExactlyOnce ==
    /\ [](\A t \in Tasks, r \in 1..MaxSubs :
            /\ Count(r, t) <= 1
            /\ \A i \in 1..Len(received[r]) :
                  received[r][i].call = t =>
                      /\ received[r][i].type = args[t].type
                      /\ received[r][i].healthy = args[t].healthy)
    /\ []<>(\A t \in Tasks, r \in 1..MaxSubs :
              RegisteredBefore(r, t) => Count(r, t) = 1)

\* A callback that never finishes, subscribed before two set_health calls, has
\* been invoked for both.
C3_Witness ==
    \E t, u \in Tasks, r \in 1..Len(subs) :
        /\ t # u /\ RegisteredBefore(r, t) /\ RegisteredBefore(r, u)
        /\ subs[r].cb = "never_finishes"
        /\ Count(r, t) = 1 /\ Count(r, u) = 1

\* C5: set_health never waits for observers.  A call is suspended only in the
\* wait for the store's lock, and every call that began returns, while no
\* callback need ever finish.
C5_NeverWaitsForObservers ==
    /\ [](\A t \in Tasks : status[t] \in {"ready", "blocked"} => pc[t] = "lock_wait")
    /\ []<>(\A t \in Tasks : status[t] # "none" => status[t] = "done")

\* A set_health call has returned while a callback that never finishes is in
\* its invocation for this call and for an earlier one.
C5_Witness ==
    \E t, u \in Tasks, r \in 1..Len(subs) :
        /\ u < t /\ RegisteredBefore(r, t) /\ RegisteredBefore(r, u)
        /\ subs[r].cb = "never_finishes"
        /\ Invoked(r, u) /\ Invoked(r, t)
        /\ status[t] = "done"

\* The callback of registration r raised while handling the event of call t.
Raised(r, t) == r <= Len(subs) /\ subs[r].cb = "raises" /\ Invoked(r, t)

Queued(r, t) == \E i \in 1..Len(pending[r]) : pending[r][i].call = t

RECURSIVE Replay(_)
\* The mapping that the committed writes of a log give, applied in order.
Replay(log) ==
    IF log = <<>>
    THEN <<>>
    ELSE LET w == log[Len(log)]
         IN  DictSet(Replay(SubSeq(log, 1, Len(log) - 1)), args[w].type, args[w].healthy)

\* C9 (failure isolation): when a callback raises while handling the event of a
\* set_health call, (a) no other observer registered on the store before the
\* call loses that event, and each eventually receives it, (b) the call has
\* returned without error, and (c) the mapping is what the committed writes give.
C9_FailureIsolation ==
    /\ [](\A t \in Tasks, r \in 1..MaxSubs :
            Raised(r, t) =>
                /\ status[t] = "done"
                /\ health[Store(t)] = Replay(commitLog[Store(t)])
                /\ \A q \in 1..MaxSubs :
                      (q # r /\ RegisteredBefore(q, t)) => Count(q, t) + (IF Queued(q, t) THEN 1 ELSE 0) = 1)
    /\ []<>(\A t \in Tasks, r \in 1..MaxSubs, q \in 1..MaxSubs :
              (Raised(r, t) /\ q # r /\ RegisteredBefore(q, t)) => Invoked(q, t))

\* A callback raised for an event that another observer, registered before the
\* call, has still to receive.
C9_Witness ==
    \E t \in Tasks, r \in 1..Len(subs), q \in 1..Len(subs) :
        /\ Raised(r, t) /\ q # r /\ RegisteredBefore(q, t)
        /\ subs[q].cb = "returns"
        /\ Queued(q, t)
        /\ health[Store(t)] # <<>>

\* Task t is inside the with-block of its call: it entered and has not left.
InCritical(t) == pc[t] \in {"get_read", "get_exit", "set_write", "set_exit"}

\* The tasks inside the with-block of a call on store s.
Holders(s) == {t \in Tasks : InCritical(t) /\ Store(t) = s}

\* C11 (lock discipline): at most one task is inside a store's with-block, the
\* lock is held exactly while one is (so a task in its publish step, which has
\* left the block, holds no lock), and every step that reads or writes the
\* mapping is taken with the store's lock held, before and after the step.
C11_LockDiscipline ==
    /\ [](\A s \in Stores :
            /\ Cardinality(Holders(s)) <= 1
            /\ locked[s] <=> Holders(s) # {})
    /\ [][\A t \in Tasks :
            (GetRead(t) \/ SetWrite(t)) => (locked[Store(t)] /\ locked'[Store(t)])]_vars
    /\ [][\A s \in Stores :
            health'[s] # health[s] =>
                \E t \in Holders(s) : SetWrite(t) /\ locked[s]]_vars

\* A set_health call has written and left the lock and is at its publish step,
\* with the lock free, after a get_health on the same store returned.
C11_Witness ==
    \E t, u \in Tasks :
        /\ IsSet(t) /\ pc[t] = "set_publish"
        /\ Last(commitLog[Store(t)]) = t
        /\ ~locked[Store(t)]
        /\ IsGet(u) /\ Store(u) = Store(t) /\ status[u] = "done"

\* The write of set_health call t was applied to the mapping of its store.
Committed(t) == \E i \in 1..Len(commitLog[Store(t)]) : commitLog[Store(t)][i] = t

\* The event (id, v), submitted for call t, is that of a write already applied.
WriteApplied(t, id, v) ==
    /\ IsSet(t) /\ Committed(t)
    /\ args[t].type = id /\ args[t].healthy = v
    /\ id \in DOMAIN health[Store(t)]

\* C12 (write happens-before submission): every event that was submitted, is
\* queued for an observer or was received by one is the (id, v) of a set_health
\* call whose write of v at id was applied before, and at the step that submits
\* the event the mapping holds v at id.
C12_WriteBeforeSubmission ==
    /\ [](\A i \in 1..Len(pubLog) :
            WriteApplied(pubLog[i].call, pubLog[i].msg.type, pubLog[i].msg.healthy))
    /\ [](\A r \in 1..MaxSubs :
            /\ \A i \in 1..Len(pending[r]) :
                  WriteApplied(pending[r][i].call, pending[r][i].msg.type,
                               pending[r][i].msg.healthy)
            /\ \A i \in 1..Len(received[r]) :
                  WriteApplied(received[r][i].call, received[r][i].type,
                               received[r][i].healthy))
    /\ [][\A t \in Tasks :
            (Publish(t) /\ pc[t] = "set_publish") =>
                /\ Committed(t)
                /\ DictGet(health[Store(t)], args[t].type, ~args[t].healthy) = args[t].healthy]_vars

\* An observer was invoked with (id, True) for a write that a later write of
\* False to the same id has since replaced.
C12_Witness ==
    \E r \in 1..Len(subs), t, u \in Tasks :
        /\ Invoked(r, t) /\ args[t].healthy = TRUE
        /\ commitLog[Store(t)] = <<t, u>>
        /\ args[u].type = args[t].type /\ args[u].healthy = FALSE
        /\ health[Store(t)][args[t].type] = FALSE

\* Every call that began has returned.
AllReturned == \A t \in Tasks : status[t] # "none" => status[t] = "done"

\* C13 (termination): under fair scheduling of the loop every get_health and
\* set_health call that began returns, whatever the number of callers of the
\* store, and a call that returned has left the lock behind it: with every
\* call returned the lock is free and nobody waits for it.  subscribe is one
\* step that neither takes nor awaits the lock and that no queued or unfinished
\* delivery holds up: it leaves the lock, the queues and the receipts as they are.
C13_CallsComplete ==
    /\ []<>(AllReturned /\ \A t \in Tasks : ~InCritical(t))
    /\ [](AllReturned => \A s \in Stores : ~locked[s] /\ waiters[s] = <<>>)
    /\ [][\A s \in Stores, cb \in Observers :
            Subscribe(s, cb) =>
                /\ UNCHANGED <<locked, waiters, pending, received, status, pc>>
                /\ Len(subs') = Len(subs) + 1]_vars

\* A get_health and a set_health have returned, and a second subscription was
\* made after the set_health began, while the first registration's callback,
\* which never finishes, was in its invocation for it or had it queued.
C13_Witness ==
    \E t, u \in Tasks :
        /\ IsSet(t) /\ IsGet(u) /\ AllReturned
        /\ subsAtStart[t] = 1 /\ Len(subs) = 2
        /\ subs[1].cb = "never_finishes"
        /\ Queued(1, t) \/ Invoked(1, t)
        /\ ~locked[Store(t)]

\* A step of get_health call t: its beginning, or a step of its coroutine.
GetStep(t) ==
    \/ status[t] = "none" /\ status'[t] # "none" /\ args'[t].op = "get"
    \/ IsGet(t) /\ TaskStep(t)

\* C14: get_health has no effect on the store.  No step of a get_health call,
\* for a known or an unknown id, changes the mapping of any store (an unknown id
\* is not inserted), submits an event, queues or starts a delivery, or changes
\* the registrations; and a get_health call never has an event of its own.
C14_GetHasNoEffect ==
    /\ [][\A t \in Tasks :
            GetStep(t) => UNCHANGED <<health, commitLog, subs, pending, received, pubLog,
                                      mediator, channel>>]_vars
    /\ [](\A t \in Tasks : IsGet(t) => EventsOf(t) = <<>>)

\* After a write of one id, a get_health of that id and a get_health of an id
\* never written have both returned; the unknown id is not in the mapping, and
\* the one registration has nothing but the event of the write.
C14_Witness ==
    \E w, t, u \in Tasks :
        /\ IsSet(w) /\ IsGet(t) /\ IsGet(u) /\ AllReturned
        /\ commitLog["A"] = <<w>> /\ w < t /\ w < u
        /\ args[t].type = args[w].type /\ args[u].type # args[w].type
        /\ DOMAIN health["A"] = {args[w].type}
        /\ Len(subs) = 1 /\ subsAtStart[w] = 1
        /\ Len(received[1]) + Len(pending[1]) = 1
        /\ Len(pubLog) = 1

\* The ids written on store s so far.
WrittenIds(s) == {args[commitLog[s][i]].type : i \in 1..Len(commitLog[s])}

\* C15: the key set of a store's mapping never shrinks.  It is at every moment
\* the set of the ids written so far, no step removes a key, and a step that
\* adds one is the write of a set_health on an id not yet present, adding
\* that id alone.
C15_KeysNeverShrink ==
    /\ [](\A s \in Stores : DOMAIN health[s] = WrittenIds(s))
    /\ [][\A s \in Stores :
            /\ DOMAIN health[s] \subseteq DOMAIN health'[s]
            /\ DOMAIN health'[s] # DOMAIN health[s] =>
                  \E t \in Tasks :
                      /\ SetWrite(t) /\ Store(t) = s
                      /\ args[t].type \notin DOMAIN health[s]
                      /\ DOMAIN health'[s] = DOMAIN health[s] \cup {args[t].type}]_vars

\* Three writes, the third to the id of the first, a subscription and its
\* deliveries: the mapping has the two ids written.
C15_Witness ==
    /\ Len(commitLog["A"]) = 3 /\ AllReturned
    /\ args[commitLog["A"][1]].type = args[commitLog["A"][3]].type
    /\ args[commitLog["A"][1]].type # args[commitLog["A"][2]].type
    /\ DOMAIN health["A"] = Components
    /\ Len(subs) >= 1 /\ Len(received[1]) >= 1

\* Every call that began has returned and no delivery is waiting to start.
Quiescent == AllReturned /\ \A r \in 1..MaxSubs : pending[r] = <<>>

\* Registration r was made on store s before the first write of s.
SubscribedBeforeFirstWrite(r, s) ==
    /\ r <= Len(subs) /\ subs[r].store = s
    /\ commitLog[s] # <<>> /\ r <= subsAtStart[commitLog[s][1]]

\* The invocations of registration r's callback for id c, in order.
ReceivedFor(r, c) == SelectSeq(received[r], LAMBDA e : e.type = c)

\* C16 (quiescent agreement): with every call on a store returned and every
\* submitted event delivered, an observer subscribed on the store before its
\* first write has received an event for each id written, and the last event
\* it received for an id carries the value that get_health returns for the id.
C16_QuiescentAgreement ==
    \A s \in Stores, r \in 1..MaxSubs, c \in Components :
        (Quiescent /\ SubscribedBeforeFirstWrite(r, s)) =>
            /\ c \in WrittenIds(s) <=> ReceivedFor(r, c) # <<>>
            /\ ReceivedFor(r, c) # <<>> =>
                  Last(ReceivedFor(r, c)).healthy = DictGet(health[s], c, FALSE)

\* Quiescent after three writes, the first and the last to one id with different
\* values, seen by an observer subscribed before the first.
C16_Witness ==
    \E r \in 1..Len(subs) :
        /\ Quiescent /\ SubscribedBeforeFirstWrite(r, "A")
        /\ Len(commitLog["A"]) = 3 /\ Len(received[r]) = 3
        /\ args[commitLog["A"][1]].type = args[commitLog["A"][3]].type
        /\ args[commitLog["A"][1]].type # args[commitLog["A"][2]].type
        /\ args[commitLog["A"][1]].healthy # args[commitLog["A"][3]].healthy

\* A step of set_health call t: its beginning, or a step of its coroutine.
SetStep(t) ==
    \/ status[t] = "none" /\ status'[t] # "none" /\ args'[t].op = "set"
    \/ IsSet(t) /\ TaskStep(t)

\* C17: set_health(id, v) changes only the entry for id.  No step of the call
\* changes the value of another id of its store, adds or removes another key,
\* or changes the registrations, the store's scope identifier or its mediator;
\* and its write leaves v at id.
C17_SetChangesOnlyItsEntry ==
    [][\A t \in Tasks :
         SetStep(t) =>
             LET s == args'[t].store
                 id == args'[t].type
             IN  /\ DOMAIN health'[s] \ {id} = DOMAIN health[s] \ {id}
                 /\ \A c \in DOMAIN health[s] \ {id} : health'[s][c] = health[s][c]
                 /\ health'[s] # health[s] => health'[s][id] = args[t].healthy
                 /\ UNCHANGED <<subs, channel, mediator, ctorChannel, ctorMediator>>]_vars

\* A set_health of one id has returned on a store that holds the opposite
\* value at the other id, written before, and that has a registration.
C17_Witness ==
    \E t, u \in Tasks :
        /\ commitLog["A"] = <<u, t>> /\ status[t] = "done"
        /\ args[u].type # args[t].type /\ args[u].healthy # args[t].healthy
        /\ health["A"][args[u].type] = args[u].healthy
        /\ health["A"][args[t].type] = args[t].healthy
        /\ Len(subs) >= 1 /\ subsAtStart[t] >= 1
        /\ ctorChannel["A"] = <<"x">> /\ channel["A"] = "x"

\* Stores a and b were constructed with the same mediator and the same scope
\* identifier.
SharedPath(a, b) ==
    /\ a # b
    /\ ctorMediator[a] # NoArg /\ ctorMediator[a] = ctorMediator[b]
    /\ ctorChannel[a] # NoArg /\ ctorChannel[a] = ctorChannel[b]
    /\ mediator[a] = mediator[b] /\ channel[a] = channel[b]

\* What get_health(c) on store s returns according to the writes of s alone.
OwnValue(s, c) ==
    IF WritesTo(s, c) = <<>> THEN FALSE ELSE args[Last(WritesTo(s, c))].healthy

\* C18: mappings are per store even on a shared notification path.  For two
\* stores with the same mediator and the same scope identifier, no step of a
\* set_health on one changes the mapping of the other, a mapping changes only in
\* the write of a set_health on its own store, and get_health returns what the
\* writes of its own store give; while the event of a set_health on one store
\* does reach the observers registered before it on the other.
C18_MappingsArePerStore ==
    /\ [][\A a, b \in Stores :
            SharedPath(a, b) =>
                /\ \A t \in Tasks : (SetStep(t) /\ args'[t].store = a) => health'[b] = health[b]
                /\ health'[b] # health[b] =>
                      \E t \in Tasks : SetWrite(t) /\ Store(t) = b]_vars
    /\ [](\A a, b \in Stores :
            SharedPath(a, b) =>
                /\ \A c \in Components : DictGet(health[b], c, FALSE) = OwnValue(b, c)
                /\ \A u \in Tasks :
                      (IsGet(u) /\ Store(u) = b /\ pc[u] = "get_exit")
                          => result[u] = OwnValue(b, args[u].type)
                /\ \A t \in Tasks, r \in 1..Len(subs) :
                      (IsSet(t) /\ Store(t) = a /\ status[t] = "done"
                          /\ subs[r].store = b /\ r <= subsAtStart[t])
                      => Count(r, t) + (IF Queued(r, t) THEN 1 ELSE 0) = 1)

\* On a shared path a set_health(id, True) on A has returned and its event was
\* received by an observer registered on B, and a later get_health(id) on B,
\* where id was never written, has read False.
C18_Witness ==
    \E t, u \in Tasks, r \in 1..Len(subs) :
        /\ SharedPath("A", "B")
        /\ IsSet(t) /\ Store(t) = "A" /\ args[t].healthy = TRUE /\ status[t] = "done"
        /\ subs[r].store = "B" /\ Invoked(r, t)
        /\ IsGet(u) /\ Store(u) = "B" /\ args[u].type = args[t].type
        /\ t < u /\ pc[u] = "get_exit" /\ result[u] = FALSE
        /\ health["A"][args[t].type] = TRUE /\ health["B"] = <<>>

\* The registrations of callback cb made on the store of call t before t began.
RegistrationsBefore(cb, t) ==
    {r \in 1..Len(subs) : r <= subsAtStart[t] /\ subs[r].store = Store(t) /\ subs[r].cb = cb}

\* The invocations of callback cb for call t, over all its registrations.
InvocationsOf(cb, t) ==
    {<<r, i>> \in (1..Len(subs)) \X (1..NumTasks) :
        subs[r].cb = cb /\ i <= Len(received[r]) /\ received[r][i].call = t}

\* C19: each subscribe call adds one independent registration, with no
\* de-duplication by callback.  A subscribe step is possible and adds a
\* registration also for a callback already registered on the store, every
\* subscribe step appends one registration with its callback and keeps the
\* earlier ones, and a callback subscribed k times on a store before a
\* set_health(id, v) is invoked for that call at most k times, each time with
\* (id, v), and under fair scheduling k times.
C19_OneRegistrationPerSubscribe ==
    /\ [](\A s \in Stores, cb \in Observers :
            (NoRunning /\ Len(subs) < MaxSubs) => ENABLED <<Subscribe(s, cb)>>_vars)
    /\ [][\A s \in Stores, cb \in Observers :
            Subscribe(s, cb) =>
                /\ Len(subs') = Len(subs) + 1
                /\ SubSeq(subs', 1, Len(subs)) = subs
                /\ subs'[Len(subs')].cb = cb /\ subs'[Len(subs')].store = s]_vars
    /\ [](\A t \in Tasks, cb \in Observers :
            IsSet(t) =>
                /\ Cardinality(InvocationsOf(cb, t)) <= Cardinality(RegistrationsBefore(cb, t))
                /\ \A p \in InvocationsOf(cb, t) :
                      /\ received[p[1]][p[2]].type = args[t].type
                      /\ received[p[1]][p[2]].healthy = args[t].healthy)
    /\ []<>(\A t \in Tasks, cb \in Observers :
              IsSet(t) =>
                  Cardinality(InvocationsOf(cb, t)) = Cardinality(RegistrationsBefore(cb, t)))

\* One callback was subscribed twice on the store before a set_health call and
\* has been invoked twice for it, once through each registration.
C19_Witness ==
    \E t \in Tasks :
        /\ IsSet(t) /\ subsAtStart[t] = 2
        /\ subs[1].cb = subs[2].cb /\ subs[1].store = subs[2].store
        /\ Cardinality(RegistrationsBefore(subs[1].cb, t)) = 2
        /\ Cardinality(InvocationsOf(subs[1].cb, t)) = 2
        /\ Count(1, t) = 1 /\ Count(2, t) = 1

====
